---- MODULE Spec2Model ----
(***************************************************************************)
(* cloudexec: the client session (cloudexec/cli.py, cloudexec/__init__.py) *)
(* and the daemon's VM pool (cloudexec/daemon.py) as state machines.       *)
(*                                                                         *)
(* The specifications share the module's variables:                        *)
(*   Spec          one client run: main -> coro_cli -> execute -> exit     *)
(*   ClientSpec    a client run with any --profile and SIGINTs             *)
(*   DaemonSpec    the daemon's event loop serving get_container requests  *)
(*   TeardownSpec  the daemon's teardown: ServerHandler.__del__, Vm.destroy*)
(*   ShutdownSpec  Sshd.shutdown and shutdown_process                      *)
(*   PortSpec      Sshd.__init__ and find_port                             *)
(*   ChanSpec      one call of wrap_execute                                *)
(*   KeySpec       Key objects from generation to release                  *)
(* Each leaves the variables of the other parts at their initial values.   *)
(***************************************************************************)
EXTENDS Integers, Sequences, FiniteSets, TLC

VARIABLES
    \* ---- client session ----
    pc,          \* position of the client run in main / coro_cli / execute
    container,   \* attribute names of the lease object handed to execute()
    stack,       \* contextlib.ExitStack of execute(): callbacks, last pushed last
    released,    \* release callbacks that were called, in call order
    acquired,    \* acquisition steps of execute() that returned normally, in order
    live,        \* resources that exist outside the client process
    error,       \* the exception propagating out of the current frame, or "none"
    origError,   \* the first exception raised in the run, or "none"
    raisedIn,    \* release actions that raised
    cmdStatus,   \* <<status>> once wrap_execute(client, command) has returned
    procStatus,  \* `status` of main(): the exit status of the client process
    sshdDown,    \* Sshd.down
    shutdownCalls, \* number of calls of Sshd.shutdown
    profile,     \* config['profile']: the value of --profile
    asked,       \* the profile names sent in a get_container call
    mountStatus, \* <<status>> once wrap_execute(client, 'sshfs ...') has returned
    keysMade,    \* Key objects whose files ssh-keygen has written
    keysReleased, \* Key objects whose __del__ has run
    interrupts,  \* SIGINTs delivered to the client process
    \* ---- daemon ----
    vms,         \* ServerHandler.vms: profile -> Vm
    drivers,     \* ServerHandler.drivers: accounts with a realized driver
    queue,       \* requests received on the socket, not yet read by the loop
    calls,       \* get_container calls that have started and are not answered
    nodes,       \* per profile: number of nodes create_node has created
    nextNode,    \* the provider's next node id
    \* ---- daemon teardown ----
    lost,        \* Vm objects whose __init__ raised: referenced by nothing
    destroyed,   \* Vm objects whose `destroyed` is True
    cloudNodes,  \* node ids that exist at the provider
    cloudKeys,   \* Vm objects whose imported key pair exists at the provider
    issued,      \* per Vm object: destroy_node / delete_key_pair calls made
    invoked,     \* per Vm object: number of calls of destroy()
    finalized,   \* Vm objects whose __del__ has run
    tpc,         \* position of the daemon's teardown
    todo,        \* the values of self.vms the loop of __del__ has yet to visit
    delRaised,   \* Vm objects whose destroy() raised
    \* ---- Sshd.shutdown and shutdown_process ----
    running,     \* per process: it has not exited
    ignores,     \* per process: the signals it ignores
    honoured,    \* per process: it has got a signal it does not ignore
    pidfile,     \* the pid file of sshd exists
    dpc,         \* position inside Sshd.shutdown, "idle" outside of it
    ppc,         \* position inside shutdown_process, "none" outside of it
    target,      \* the process shutdown_process was called with
    signals,     \* the signals sent, in order
    reads,       \* the calls of Sshd.shutdown that opened the pid file
    results,     \* the calls of shutdown_process that have ended, in order
    \* ---- Sshd.__init__ and find_port ----
    listeners,   \* loopback ports on which something listens
    epc,         \* per endpoint: position of its Sshd object
    eport,       \* per endpoint: `port` of find_port, then self.port
    probes,      \* per endpoint: the connect attempts of find_port, in order
    \* ---- wrap_execute ----
    total,       \* per stream: bytes the remote command writes in all
    remote,      \* per stream: bytes the remote command has yet to write
    buffer,      \* per stream: bytes the channel has received, not yet read
    pipes,       \* per stream: bytes written to pipe_out / pipe_err
    exitReady,   \* channel.exit_status_ready()
    got,         \* `out` and `err` of the current turn of the loop
    wpc,         \* position inside wrap_execute
    \* ---- Key ----
    keyFiles,    \* per key: which of its two files exist
    denied,      \* per key: the files whose removal the file system refuses
    kpc,         \* per key: position in the life of the Key object
    attempted,   \* per key: the files __del__ has called os.remove for
    keyError     \* per key: the exception that left __del__, if any

cliVars == <<profile, asked, mountStatus, keysMade, keysReleased, interrupts>>
sessVars == <<pc, container, stack, released, acquired, live, error, origError,
              raisedIn, cmdStatus, procStatus, sshdDown, shutdownCalls,
              cliVars>>
daemonVars == <<vms, drivers, queue, calls, nodes, nextNode>>
daemonRest == <<drivers, queue, calls, nodes, nextNode>>
tearVars == <<lost, destroyed, cloudNodes, cloudKeys, issued, invoked,
              finalized, tpc, todo, delRaised>>
sessRest == <<pc, container, stack, released, acquired, live, error,
              origError, raisedIn, cmdStatus, procStatus, cliVars>>
downVars == <<running, ignores, honoured, pidfile, dpc, ppc, target, signals,
              reads, results>>
portVars == <<listeners, epc, eport, probes>>
chanVars == <<total, remote, buffer, pipes, exitReady, got, wpc>>
keyVars == <<keyFiles, denied, kpc, attempted, keyError>>
auxVars == <<tearVars, downVars, portVars, chanVars, keyVars>>
tearFrame == <<sessVars, daemonRest, downVars, portVars, chanVars, keyVars>>
downFrame == <<sessRest, daemonVars, tearVars, portVars, chanVars, keyVars>>
portFrame == <<sessVars, daemonVars, tearVars, downVars, chanVars, keyVars>>
chanFrame == <<sessVars, daemonVars, tearVars, downVars, portVars, keyVars>>
keyFrame == <<sessVars, daemonVars, tearVars, downVars, portVars, chanVars>>
vars == <<sessVars, daemonVars, auxVars>>

-----------------------------------------------------------------------------
(* Bounds *)

\* remote commands exit with a status in 0..MaxStatus
MaxStatus == 2
\* lease requests that are outstanding at the daemon at one time
MaxRequests == 2
\* nodes the provider creates during one daemon run
MaxNodes == 2
\* calls of Sshd.shutdown on one Sshd object
MaxShutdownCalls == 2
\* loopback ports above the first one that find_port can probe
MaxPorts == 2
\* bytes a remote command writes to one of its output streams
MaxBytes == 2
\* SIGINTs delivered to one client run
MaxInterrupts == 2

\* self.find_port(8000)
FirstPort == 8000

\* status = 0 in main()
InitialStatus == 0

\* the value of a call that has not returned
NoStatus == <<>>

\* --profile: default='default'
DefaultProfile == "default"

\* the values of --profile clients are started with
ClientProfiles == {"default", "alt"}

-----------------------------------------------------------------------------
(* Client session: values *)

\* common.Container names the address ip_address
CommonContainer == {"ip_address", "user", "key"}
\* the Container of the stand-alone script names it ip
ScriptContainer == {"ip", "user", "key"}

\* the acquisition steps of execute(), in program order
AcquisitionSteps == <<"forward", "connect", "sftp", "upload", "mount">>

\* the callback execute() registers once a step has returned
CallbackOf(step) ==
    CASE step = "forward" -> "stop_forward"
      [] step = "connect" -> "close_ssh"
      [] step = "sftp"    -> "close_sftp"
      [] step = "upload"  -> "remove_key"
      [] step = "mount"   -> "unmount"

\* what each callback releases
ResourceOf(cb) ==
    CASE cb = "stop_forward" -> "forward"
      [] cb = "close_ssh"    -> "ssh"
      [] cb = "close_sftp"   -> "sftp"
      [] cb = "remove_key"   -> "key"
      [] cb = "unmount"      -> "mount"

\* stack.callback(cb)
Push(s, cb) == Append(s, cb)

\* the callback ExitStack.__exit__ calls next: the last one registered
NextCallback(s) == s[Len(s)]

\* a stack whose unwinding would end at the first callback that raises
RemainingUntilRaise(s, raised) ==
    IF raised THEN <<>> ELSE SubSeq(s, 1, Len(s) - 1)

\* the callbacks ExitStack.__exit__ still has to call once it has called
\* NextCallback(s); an exception raised by a callback does not end the loop
Remaining(s, raised) == SubSeq(s, 1, Len(s) - 1)

\* the exception that leaves a with-block whose body left with exception
\* `inner` and whose exit handler raised `outer` ("none": it did not raise):
\* an exception raised while unwinding replaces the one being unwound
Propagated(inner, outer) == IF outer = "none" THEN inner ELSE outer

\* outcomes of a release callback; shutdown_process on a Popen handle ends
\* with kill() and wait() and does not raise
ReleaseOutcomes(cb) ==
    CASE cb = "stop_forward" -> {"ok"}
      [] cb = "unmount"      -> {"ok", "nonzero", "raise"}
      [] OTHER               -> {"ok", "raise"}

SessInit ==
    /\ pc = "lease"
    /\ container = {}
    /\ stack = <<>>
    /\ released = <<>>
    /\ acquired = <<>>
    /\ live = {}
    /\ error = "none"
    /\ origError = "none"
    /\ raisedIn = {}
    /\ cmdStatus = NoStatus
    /\ procStatus = InitialStatus
    /\ sshdDown = FALSE
    /\ shutdownCalls = 0
    /\ profile = DefaultProfile
    /\ asked = {}
    /\ mountStatus = NoStatus
    /\ keysMade = {}
    /\ keysReleased = {}
    /\ interrupts = 0

\* an exception `e` raised by the step at the current position
Raise(e, to) ==
    /\ pc' = to
    /\ error' = e
    /\ origError' = IF origError = "none" THEN e ELSE origError

ReleaseError(cb) ==
    CASE cb = "stop_forward" -> "R_stop_forward"
      [] cb = "close_ssh"    -> "R_close_ssh"
      [] cb = "close_sftp"   -> "R_close_sftp"
      [] cb = "remove_key"   -> "R_remove_key"
      [] cb = "unmount"      -> "R_unmount"

\* a stack that would call its callbacks in the order of registration
RegisteredFirst(step, s) == <<CallbackOf(step)>> \o s

\* a step of execute() has returned: its callback is registered
Registered(step, s) == Push(s, CallbackOf(step))

\* the argument of client.call.get_container: the literal 'default'
LeaseArgument(p) == "default"

\* client = yield from connect_rpc(...); container = get_container('default')
GetLease ==
    /\ pc = "lease"
    /\ asked' = asked \cup {LeaseArgument(profile)}
    /\ \/ /\ \E c \in {CommonContainer, ScriptContainer} : container' = c
          /\ pc' = "key_mount"
          /\ UNCHANGED <<error, origError>>
       \/ /\ Raise("E_lease", "main")
          /\ UNCHANGED container
    /\ UNCHANGED <<stack, released, acquired, live, raisedIn, cmdStatus,
                   procStatus, sshdDown, shutdownCalls>>
    /\ UNCHANGED <<profile, mountStatus, keysMade, keysReleased, interrupts>>
    /\ UNCHANGED <<daemonVars, auxVars>>

\* key_mount = Key(...); key_local = Key(...): ssh-keygen may exit non-zero
KeyGen(at, next) ==
    /\ pc = at
    /\ \/ /\ pc' = next
          /\ keysMade' = keysMade \cup {at}
          /\ UNCHANGED <<error, origError>>
       \/ /\ Raise("E_keygen", "main")
          /\ UNCHANGED keysMade
    /\ UNCHANGED <<container, stack, released, acquired, live, raisedIn,
                   cmdStatus, procStatus, sshdDown, shutdownCalls>>
    /\ UNCHANGED <<profile, asked, mountStatus, keysReleased, interrupts>>
    /\ UNCHANGED <<daemonVars, auxVars>>

KeyMount == KeyGen("key_mount", "key_local")

KeyLocal == KeyGen("key_local", "sshd")

\* with Sshd(...) as sshd: __init__ ends with the Popen of /usr/bin/sshd
SshdInit ==
    /\ pc = "sshd"
    /\ \/ /\ pc' = "forward"
          /\ live' = live \cup {"sshd"}
          /\ UNCHANGED <<error, origError>>
       \/ /\ Raise("E_sshd", "main")
          /\ UNCHANGED live
    /\ UNCHANGED <<container, stack, released, acquired, raisedIn, cmdStatus,
                   procStatus, sshdDown, shutdownCalls>>
    /\ UNCHANGED cliVars
    /\ UNCHANGED <<daemonVars, auxVars>>

\* process_port = subprocess.Popen([... container.ip ...]); stack.callback
StartForward ==
    /\ pc = "forward"
    /\ \/ /\ "ip" \notin container
          /\ Raise("E_attribute", "unwind")
          /\ UNCHANGED <<stack, acquired, live>>
       \/ /\ "ip" \in container
          /\ \/ /\ pc' = "connect"
                /\ live' = live \cup {"forward"}
                /\ stack' = Registered("forward", stack)
                /\ acquired' = Append(acquired, "forward")
                /\ UNCHANGED <<error, origError>>
             \/ /\ Raise("E_forward", "unwind")
                /\ UNCHANGED <<stack, acquired, live>>
    /\ UNCHANGED <<container, released, raisedIn, cmdStatus, procStatus,
                   sshdDown, shutdownCalls>>
    /\ UNCHANGED cliVars
    /\ UNCHANGED <<daemonVars, auxVars>>

\* client.connect(container.ip, ...); stack.callback(client.close)
Connect ==
    /\ pc = "connect"
    /\ \/ /\ pc' = "sftp"
          /\ live' = live \cup {"ssh"}
          /\ stack' = Registered("connect", stack)
          /\ acquired' = Append(acquired, "connect")
          /\ UNCHANGED <<error, origError>>
       \/ /\ Raise("E_connect", "unwind")
          /\ UNCHANGED <<stack, acquired, live>>
    /\ UNCHANGED <<container, released, raisedIn, cmdStatus, procStatus,
                   sshdDown, shutdownCalls>>
    /\ UNCHANGED cliVars
    /\ UNCHANGED <<daemonVars, auxVars>>

\* sftp = client.open_sftp(); stack.callback(sftp.close)
OpenSftp ==
    /\ pc = "sftp"
    /\ \/ /\ pc' = "put"
          /\ live' = live \cup {"sftp"}
          /\ stack' = Registered("sftp", stack)
          /\ acquired' = Append(acquired, "sftp")
          /\ UNCHANGED <<error, origError>>
       \/ /\ Raise("E_sftp", "unwind")
          /\ UNCHANGED <<stack, acquired, live>>
    /\ UNCHANGED <<container, released, raisedIn, cmdStatus, procStatus,
                   sshdDown, shutdownCalls>>
    /\ UNCHANGED cliVars
    /\ UNCHANGED <<daemonVars, auxVars>>

\* sftp.put(sshd.key_auth.name, '.ssh/id_rsa')
PutKey ==
    /\ pc = "put"
    /\ \/ /\ pc' = "chmod"
          /\ live' = live \cup {"key"}
          /\ UNCHANGED <<error, origError>>
       \/ /\ Raise("E_put", "unwind")
          /\ UNCHANGED live
    /\ UNCHANGED <<container, stack, released, acquired, raisedIn, cmdStatus,
                   procStatus, sshdDown, shutdownCalls>>
    /\ UNCHANGED cliVars
    /\ UNCHANGED <<daemonVars, auxVars>>

\* sftp.chmod('.ssh/id_rsa', 0o600); stack.callback(sftp.remove)
Chmod ==
    /\ pc = "chmod"
    /\ \/ /\ pc' = "mount"
          /\ stack' = Registered("upload", stack)
          /\ acquired' = Append(acquired, "upload")
          /\ UNCHANGED <<error, origError>>
       \/ /\ Raise("E_chmod", "unwind")
          /\ UNCHANGED <<stack, acquired>>
    /\ UNCHANGED <<container, released, live, raisedIn, cmdStatus, procStatus,
                   sshdDown, shutdownCalls>>
    /\ UNCHANGED cliVars
    /\ UNCHANGED <<daemonVars, auxVars>>

\* an execute() that would give up when the mount command exits non-zero
MountAbortsOnFailure(status) == status # 0

\* the value wrap_execute(client, 'sshfs ...') returns is not looked at
MountAborts(status) == FALSE

\* listdir / mkdir / wrap_execute(client, 'sshfs ...'); stack.callback(unmount).
\* The value wrap_execute returns is dropped: the callback is registered for
\* every exit status.  When a call raises, the mount may or may not exist.
Mount ==
    /\ pc = "mount"
    /\ \/ \E status \in 0..1 :
             /\ live' = IF status = 0 THEN live \cup {"mount"} ELSE live
             /\ mountStatus' = <<status>>
             /\ IF MountAborts(status)
                THEN /\ Raise("E_mount", "unwind")
                     /\ UNCHANGED <<stack, acquired>>
                ELSE /\ pc' = "run"
                     /\ stack' = Registered("mount", stack)
                     /\ acquired' = Append(acquired, "mount")
                     /\ UNCHANGED <<error, origError>>
       \/ /\ Raise("E_mount", "unwind")
          /\ \E mounted \in BOOLEAN :
                live' = IF mounted THEN live \cup {"mount"} ELSE live
          /\ UNCHANGED <<stack, acquired, mountStatus>>
    /\ UNCHANGED <<container, released, raisedIn, cmdStatus, procStatus,
                   sshdDown, shutdownCalls>>
    /\ UNCHANGED <<profile, asked, keysMade, keysReleased, interrupts>>
    /\ UNCHANGED <<daemonVars, auxVars>>

\* return wrap_execute(client, command)
RunCommand ==
    /\ pc = "run"
    /\ \/ /\ \E status \in 0..MaxStatus : cmdStatus' = <<status>>
          /\ pc' = "unwind"
          /\ UNCHANGED <<error, origError>>
       \/ /\ Raise("E_command", "unwind")
          /\ UNCHANGED cmdStatus
    /\ UNCHANGED <<container, stack, released, acquired, live, raisedIn,
                   procStatus, sshdDown, shutdownCalls>>
    /\ UNCHANGED cliVars
    /\ UNCHANGED <<daemonVars, auxVars>>

\* ExitStack.__exit__: one callback
Unwind ==
    /\ pc = "unwind"
    /\ stack # <<>>
    /\ LET cb == NextCallback(stack) IN
       \E o \in ReleaseOutcomes(cb) :
          /\ released' = Append(released, cb)
          /\ stack' = Remaining(stack, o = "raise")
          /\ live' = IF o = "ok" THEN live \ {ResourceOf(cb)} ELSE live
          /\ IF o = "raise"
             THEN /\ error' = Propagated(error, ReleaseError(cb))
                  /\ origError' = IF origError = "none"
                                  THEN ReleaseError(cb) ELSE origError
                  /\ raisedIn' = raisedIn \cup {cb}
             ELSE UNCHANGED <<error, origError, raisedIn>>
    /\ UNCHANGED <<pc, container, acquired, cmdStatus, procStatus, sshdDown,
                   shutdownCalls>>
    /\ UNCHANGED cliVars
    /\ UNCHANGED <<daemonVars, auxVars>>

\* execute() is left, by return or by the propagating exception
LeaveExecute ==
    /\ pc = "unwind"
    /\ stack = <<>>
    /\ pc' = "sshd_exit"
    /\ UNCHANGED <<container, stack, released, acquired, live, error, origError,
                   raisedIn, cmdStatus, procStatus, sshdDown, shutdownCalls>>
    /\ UNCHANGED cliVars
    /\ UNCHANGED <<daemonVars, auxVars>>

\* Sshd.__exit__ -> Sshd.shutdown: open(pidfile), shutdown_process of the
\* recorded pid, shutdown_process(self.process), self.down = True.  Reading
\* the pid file or supervising the recorded pid may raise; then neither
\* self.process is supervised nor down set.
SshdExit ==
    /\ pc = "sshd_exit"
    /\ ~sshdDown
    /\ shutdownCalls' = shutdownCalls + 1
    /\ \/ /\ sshdDown' = TRUE
          /\ live' = live \ {"sshd"}
          /\ UNCHANGED <<error, origError, raisedIn>>
       \/ /\ error' = Propagated(error, "R_sshd_shutdown")
          /\ origError' = IF origError = "none"
                          THEN "R_sshd_shutdown" ELSE origError
          /\ raisedIn' = raisedIn \cup {"sshd_shutdown"}
          /\ UNCHANGED <<sshdDown, live>>
    /\ pc' = IF error' = "none" THEN "return" ELSE "main"
    /\ UNCHANGED <<container, stack, released, acquired, cmdStatus, procStatus>>
    /\ UNCHANGED cliVars
    /\ UNCHANGED <<daemonVars, auxVars>>

\* a coro_cli whose key objects would be dropped before the with-block of
\* the Sshd object is left
FrameLeftEarly(p) == p \in {"sshd_exit", "return"}

\* coro_cli returns: its locals key_mount, key_local and sshd are dropped
FrameLeft(p) == p = "return"

\* Key.__del__ of the keys that were made.  When coro_cli returns, its frame
\* goes and the keys with it; when an exception left coro_cli, the traceback
\* holds the frame and the keys are finalized at the exit of the interpreter,
\* if at all.
KeysDel ==
    /\ \/ FrameLeft(pc)
       \/ pc = "done" /\ error # "none" /\ keysReleased # keysMade
    /\ keysReleased' = keysMade
    /\ pc' = IF pc = "return" THEN "main" ELSE pc
    /\ UNCHANGED <<container, stack, released, acquired, live, error, origError,
                   raisedIn, cmdStatus, procStatus, sshdDown, shutdownCalls>>
    /\ UNCHANGED <<profile, asked, mountStatus, keysMade, interrupts>>
    /\ UNCHANGED <<daemonVars, auxVars>>

\* main(): status = 0; status = run_until_complete(coro_cli(...)); a
\* KeyboardInterrupt is caught and leaves status as it is, a
\* RequestException sets status = 1, any other exception leaves main()
\* uncaught and the interpreter exits with 1; exit(status)
ExitStatus(err, ret) ==
    IF err = "none" THEN ret[1]
    ELSE IF err = "KeyboardInterrupt" THEN InitialStatus
    ELSE 1

MainExit ==
    /\ pc = "main"
    /\ procStatus' = ExitStatus(error, cmdStatus)
    /\ pc' = "done"
    /\ UNCHANGED <<container, stack, released, acquired, live, error, origError,
                   raisedIn, cmdStatus, sshdDown, shutdownCalls>>
    /\ UNCHANGED cliVars
    /\ UNCHANGED <<daemonVars, auxVars>>

-----------------------------------------------------------------------------
(* Client session: SIGINT *)

\* the positions of coro_cli before the body of `with Sshd(...)`
BeforeExecute == {"lease", "key_mount", "key_local", "sshd"}

\* the positions inside the with-block of execute() before its end
InExecute == {"forward", "connect", "sftp", "put", "chmod", "mount", "run"}

\* what the statement at position p brings into being before its callback
\* is registered (for Sshd: before the with-block is entered)
Partial(p) ==
    CASE p = "sshd"              -> {"sshd"}
      [] p = "forward"           -> {"forward"}
      [] p = "connect"           -> {"ssh"}
      [] p = "sftp"              -> {"sftp"}
      [] p \in {"put", "chmod"}  -> {"key"}
      [] p = "mount"             -> {"mount"}
      [] OTHER                   -> {}

\* SIGINT while a statement of coro_cli or execute() runs: the handler raises
\* KeyboardInterrupt there; what the statement had started may exist already
InterruptStep ==
    /\ pc \in BeforeExecute \cup InExecute
    /\ interrupts < MaxInterrupts
    /\ interrupts' = interrupts + 1
    /\ Raise("KeyboardInterrupt", IF pc \in InExecute THEN "unwind" ELSE "main")
    /\ \E begun \in BOOLEAN :
          live' = IF begun THEN live \cup Partial(pc) ELSE live
    /\ UNCHANGED <<container, stack, released, acquired, raisedIn, cmdStatus,
                   procStatus, sshdDown, shutdownCalls>>
    /\ UNCHANGED <<profile, asked, mountStatus, keysMade, keysReleased>>
    /\ UNCHANGED <<daemonVars, auxVars>>

\* SIGINT while a callback of the ExitStack runs: the callback is left by
\* KeyboardInterrupt, which ExitStack.__exit__ catches like any exception
InterruptCallback ==
    /\ pc = "unwind"
    /\ stack # <<>>
    /\ interrupts < MaxInterrupts
    /\ interrupts' = interrupts + 1
    /\ LET cb == NextCallback(stack) IN
       /\ released' = Append(released, cb)
       /\ stack' = Remaining(stack, TRUE)
       /\ raisedIn' = raisedIn \cup {cb}
    /\ error' = Propagated(error, "KeyboardInterrupt")
    /\ origError' = IF origError = "none" THEN "KeyboardInterrupt"
                    ELSE origError
    /\ UNCHANGED <<pc, container, acquired, live, cmdStatus, procStatus,
                   sshdDown, shutdownCalls>>
    /\ UNCHANGED <<profile, asked, mountStatus, keysMade, keysReleased>>
    /\ UNCHANGED <<daemonVars, auxVars>>

\* SIGINT while ExitStack.__exit__ itself runs, between two callbacks:
\* KeyboardInterrupt leaves __exit__ and the callbacks not yet called stay
\* uncalled
InterruptExitStack ==
    /\ pc = "unwind"
    /\ stack # <<>>
    /\ interrupts < MaxInterrupts
    /\ interrupts' = interrupts + 1
    /\ Raise("KeyboardInterrupt", "sshd_exit")
    /\ UNCHANGED <<container, stack, released, acquired, live, raisedIn,
                   cmdStatus, procStatus, sshdDown, shutdownCalls>>
    /\ UNCHANGED <<profile, asked, mountStatus, keysMade, keysReleased>>
    /\ UNCHANGED <<daemonVars, auxVars>>

\* SIGINT while Sshd.shutdown runs, called by Sshd.__exit__: shutdown is
\* left before self.down = True
InterruptShutdown ==
    /\ pc = "sshd_exit"
    /\ ~sshdDown
    /\ interrupts < MaxInterrupts
    /\ interrupts' = interrupts + 1
    /\ shutdownCalls' = shutdownCalls + 1
    /\ Raise("KeyboardInterrupt", "main")
    /\ raisedIn' = raisedIn \cup {"sshd_shutdown"}
    /\ UNCHANGED <<container, stack, released, acquired, live, cmdStatus,
                   procStatus, sshdDown>>
    /\ UNCHANGED <<profile, asked, mountStatus, keysMade, keysReleased>>
    /\ UNCHANGED <<daemonVars, auxVars>>

-----------------------------------------------------------------------------
(* Daemon: configuration and values *)

\* config['profiles']: name -> attributes that are present
ProfileConfig ==
    [default |-> [account |-> "main",   image_id |-> "img", size_id |-> "small"],
     alt     |-> [account |-> "main",   image_id |-> "img", size_id |-> "small"],
     orphan  |-> [account |-> "nobody", image_id |-> "img", size_id |-> "small"],
     odd     |-> [account |-> "weird",  image_id |-> "img", size_id |-> "small"],
     halved  |-> [account |-> "half",   image_id |-> "img", size_id |-> "small"],
     partial |-> [account |-> "main",   size_id |-> "small"],
     bare    |-> [image_id |-> "img",   size_id |-> "small"]]

\* config['accounts']
AccountConfig ==
    [main  |-> [provider |-> "ec2",    username |-> "u", api_key |-> "k",
                region |-> "r"],
     weird |-> [provider |-> "nosuch", username |-> "u", api_key |-> "k",
                region |-> "r"],
     half  |-> [provider |-> "ec2",    username |-> "u"]]

\* the names libcloud's Provider has
ProviderNames == {"EC2"}

\* str(aconfig['provider']).upper()
Upper(name) ==
    CASE name = "ec2"    -> "EC2"
      [] name = "nosuch" -> "NOSUCH"
      [] OTHER           -> name

\* the profile names clients ask for: the configured ones and one that is not
RequestProfiles == DOMAIN ProfileConfig \cup {"ghost"}

NoReply == [kind |-> "none"]

\* a RequestException (or another exception) sent back to the client
ErrorReply(msg) == [kind |-> "error", msg |-> msg]

\* Vm.__init__ before the first driver call: node = None, kpair = None
NewVm(p) == [key |-> p, node |-> 0, kpair |-> FALSE, ip_address |-> 0,
             setup |-> FALSE]

\* the address the provider reports for a node: one per node
AddressOf(node) == 100 + node

\* cloudexec.common.Container(machine.ip_address, 'root', machine.key.name)
Lease(machine) ==
    [kind |-> "lease", ip_address |-> machine.ip_address, user |-> "root",
     key |-> <<"key.ssh", machine.key>>]

\* `during` of a request: no provisioning of its profile was in progress
\* when it arrived
NotDuring == [pending |-> FALSE, node |-> 0]
\* one was, and is still running
Pending == [pending |-> TRUE, node |-> 0]
\* one was, and it has put the Vm of node n into the pool
During(n) == [pending |-> FALSE, node |-> n]

\* a request on the socket
Request(p, d) == [profile |-> p, during |-> d]

\* a get_container call that has just started
NewCall(req) ==
    [profile |-> req.profile, during |-> req.during, pc |-> "get_container",
     machine |-> NewVm("none"), reply |-> NoReply, ncalls |-> 0]

\* positions of a get_container call inside create_vm
ProvisioningSteps == {"create_vm", "create_driver", "keygen", "catalog",
                      "import_key", "create_node", "wait_running", "setup",
                      "store"}

\* positions inside Vm(...): driver calls and the SSH bootstrap
RemoteSteps == {"catalog", "import_key", "create_node", "wait_running",
                "setup"}

Calls == 1..Len(calls)

\* a provisioning of profile p is in progress
Provisioning(p) ==
    \E i \in Calls : calls[i].profile = p /\ calls[i].pc \in ProvisioningSteps

DaemonInit ==
    /\ vms = <<>>
    /\ drivers = {}
    /\ queue = <<>>
    /\ calls = <<>>
    /\ nodes = [p \in DOMAIN ProfileConfig |-> 0]
    /\ nextNode = 1

\* a server that would read the next request while a call is running
CanDispatchAlways == TRUE

\* get_container is a plain method, not a coroutine: the event loop calls it
\* and reads the next request only once the call has returned and its reply
\* is written
CanDispatch == calls = <<>>

\* a handler that would never find a profile in self.vms
CachedNever(p) == FALSE

\* `profile not in self.vms` is false: the cached Vm is used
Cached(p) == p \in DOMAIN vms

\* a create_vm without the test for the profile's name
UnknownProfileNever(p) == FALSE

\* `profile not in self.config['profiles']`
UnknownProfile(p) == p \notin DOMAIN ProfileConfig

\* self.config['profiles'][profile]
ProfileEntry(p) == IF p \in DOMAIN ProfileConfig THEN ProfileConfig[p] ELSE <<>>

\* a pool that would keep the Vm under construction when create_vm fails
PoolKeepsPartial(pool, p, machine) ==
    [q \in DOMAIN pool \cup {p} |-> IF q = p THEN machine ELSE pool[q]]

\* self.vms when an exception leaves create_vm: the assignment
\* self.vms[profile] = Vm(...) has not happened
PoolOnFailure(pool, p, machine) == pool

\* self.vms[profile] = machine
PoolWith(pool, p, machine) ==
    [q \in DOMAIN pool \cup {p} |-> IF q = p THEN machine ELSE pool[q]]

\* the requests on the socket once the provisioning of p has ended: those
\* that arrived during it learn its outcome d
Settled(q, p, d) ==
    [k \in DOMAIN q |->
        IF q[k].profile = p /\ q[k].during = Pending
        THEN Request(p, d) ELSE q[k]]

\* the exception leaves get_container: an error reply is to be written
Fail(i, msg) ==
    /\ calls' = [calls EXCEPT ![i].pc = "reply", ![i].reply = ErrorReply(msg)]
    /\ vms' = PoolOnFailure(vms, calls[i].profile, calls[i].machine)
    /\ queue' = Settled(queue, calls[i].profile, NotDuring)

\* the call moves on to position `to`
Goto(i, to) ==
    /\ calls' = [calls EXCEPT ![i].pc = to]
    /\ UNCHANGED <<vms, queue>>

\* the call has made a driver call or generated a key
Counted(cs, i) == [cs EXCEPT ![i].ncalls = @ + 1]

\* a client's request reaches the daemon's socket
Arrive(p) ==
    /\ Len(queue) + Len(calls) < MaxRequests
    /\ queue' = Append(queue,
                   Request(p, IF Provisioning(p) THEN Pending ELSE NotDuring))
    /\ UNCHANGED <<vms, drivers, calls, nodes, nextNode>>
    /\ UNCHANGED <<sessVars, auxVars>>

\* the event loop reads the next request and calls get_container
Dispatch ==
    /\ queue # <<>>
    /\ CanDispatch
    /\ queue' = Tail(queue)
    /\ calls' = Append(calls, NewCall(Head(queue)))
    /\ UNCHANGED <<vms, drivers, nodes, nextNode>>
    /\ UNCHANGED <<sessVars, auxVars>>

\* get_container: if profile not in self.vms: self.create_vm(profile)
GetContainer(i) ==
    /\ calls[i].pc = "get_container"
    /\ IF Cached(calls[i].profile)
       THEN calls' = [calls EXCEPT ![i].pc = "reply",
                         ![i].reply = Lease(vms[calls[i].profile])]
       ELSE calls' = [calls EXCEPT ![i].pc = "create_vm"]
    /\ UNCHANGED <<vms, drivers, queue, nodes, nextNode>>
    /\ UNCHANGED <<sessVars, auxVars>>

\* create_vm up to `driver = self.drivers[account]`
CreateVm(i) ==
    /\ calls[i].pc = "create_vm"
    /\ LET p == calls[i].profile
           pconfig == ProfileEntry(p)
       IN  \/ /\ UnknownProfile(p)
              /\ Fail(i, "Unknown profile")
           \/ /\ ~UnknownProfile(p)
              /\ "account" \notin DOMAIN pconfig
              /\ Fail(i, "Invalid profile configuration")
           \/ /\ ~UnknownProfile(p)
              /\ "account" \in DOMAIN pconfig
              /\ Goto(i, IF pconfig.account \in drivers THEN "keygen"
                                                        ELSE "create_driver")
    /\ UNCHANGED <<drivers, nodes, nextNode>>
    /\ UNCHANGED <<sessVars, auxVars>>

\* create_driver(account)
CreateDriver(i) ==
    /\ calls[i].pc = "create_driver"
    /\ LET account == ProfileEntry(calls[i].profile).account IN
       \/ /\ account \notin DOMAIN AccountConfig
          /\ Fail(i, "Unknown account")
          /\ UNCHANGED drivers
       \/ /\ account \in DOMAIN AccountConfig
          /\ LET aconfig == AccountConfig[account] IN
             \/ /\ "provider" \in DOMAIN aconfig
                /\ Upper(aconfig.provider) \notin ProviderNames
                /\ Fail(i, "Unknown provider")
                /\ UNCHANGED drivers
             \/ /\ {"provider", "username", "api_key", "region"}
                       \ DOMAIN aconfig # {}
                /\ "provider" \in DOMAIN aconfig
                       => Upper(aconfig.provider) \in ProviderNames
                /\ Fail(i, "Invalid account configuration")
                /\ UNCHANGED drivers
             \/ /\ {"provider", "username", "api_key", "region"}
                       \subseteq DOMAIN aconfig
                /\ Upper(aconfig.provider) \in ProviderNames
                /\ drivers' = drivers \cup {account}
                /\ Goto(i, "keygen")
    /\ UNCHANGED <<nodes, nextNode>>
    /\ UNCHANGED <<sessVars, auxVars>>

\* key_ssh = Key(...); the arguments of Vm(...): pconfig['image_id'],
\* pconfig['size_id']
KeyGenSsh(i) ==
    /\ calls[i].pc = "keygen"
    /\ LET pconfig == ProfileEntry(calls[i].profile) IN
       \/ Fail(i, "ssh-keygen failed")
       \/ /\ {"image_id", "size_id"} \ DOMAIN pconfig # {}
          /\ calls' = [Counted(calls, i) EXCEPT ![i].pc = "reply",
                 ![i].reply = ErrorReply("Invalid profile configuration")]
          /\ vms' = PoolOnFailure(vms, calls[i].profile, calls[i].machine)
          /\ queue' = Settled(queue, calls[i].profile, NotDuring)
       \/ /\ {"image_id", "size_id"} \subseteq DOMAIN pconfig
          /\ calls' = [Counted(calls, i) EXCEPT ![i].pc = "catalog",
                 ![i].machine = NewVm(calls[i].profile)]
          /\ UNCHANGED <<vms, queue>>
    /\ UNCHANGED <<drivers, nodes, nextNode>>
    /\ UNCHANGED <<sessVars, auxVars>>

\* a driver call or the bootstrap raised: the exception leaves Vm.__init__
\* with the object as far as it was built
RemoteFail(i, msg, machine) ==
    /\ calls' = [Counted(calls, i) EXCEPT ![i].pc = "reply",
                    ![i].reply = ErrorReply(msg), ![i].machine = machine]
    /\ vms' = PoolOnFailure(vms, calls[i].profile, machine)
    /\ queue' = Settled(queue, calls[i].profile, NotDuring)

\* a driver call or the bootstrap returned
RemoteDone(i, to, machine) ==
    /\ calls' = [Counted(calls, i) EXCEPT ![i].pc = to, ![i].machine = machine]
    /\ UNCHANGED <<vms, queue>>

\* Vm.__init__: list_images, list_sizes and the two filters
Catalog(i) ==
    /\ calls[i].pc = "catalog"
    /\ \/ RemoteFail(i, "driver error", calls[i].machine)
       \/ \E image_found, size_found \in BOOLEAN :
             IF ~image_found
             THEN RemoteFail(i, "No VM image", calls[i].machine)
             ELSE IF ~size_found
             THEN RemoteFail(i, "No VM size", calls[i].machine)
             ELSE RemoteDone(i, "import_key", calls[i].machine)
    /\ UNCHANGED <<drivers, nodes, nextNode>>
    /\ UNCHANGED <<sessVars, auxVars>>

\* self.kpair = driver.import_key_pair_from_file(...)
ImportKey(i) ==
    /\ calls[i].pc = "import_key"
    /\ \/ RemoteFail(i, "driver error", calls[i].machine)
       \/ RemoteDone(i, "create_node", [calls[i].machine EXCEPT !.kpair = TRUE])
    /\ UNCHANGED <<drivers, nodes, nextNode>>
    /\ UNCHANGED <<sessVars, auxVars>>

\* self.node = self.driver.create_node(...)
CreateNode(i) ==
    /\ calls[i].pc = "create_node"
    /\ nextNode <= MaxNodes
    /\ \/ /\ RemoteFail(i, "driver error", calls[i].machine)
          /\ UNCHANGED <<nodes, nextNode>>
       \/ /\ RemoteDone(i, "wait_running",
                        [calls[i].machine EXCEPT !.node = nextNode])
          /\ nextNode' = nextNode + 1
          /\ nodes' = [nodes EXCEPT ![calls[i].profile] = @ + 1]
    /\ UNCHANGED drivers
    /\ UNCHANGED <<sessVars, auxVars>>

\* self.ip_address = self.driver.wait_until_running([self.node])[0][1][0]
WaitRunning(i) ==
    /\ calls[i].pc = "wait_running"
    /\ \/ RemoteFail(i, "driver error", calls[i].machine)
       \/ RemoteDone(i, "setup",
             [calls[i].machine EXCEPT
                 !.ip_address = AddressOf(calls[i].machine.node)])
    /\ UNCHANGED <<drivers, nodes, nextNode>>
    /\ UNCHANGED <<sessVars, auxVars>>

\* self.setup(): client.connect and two wrap_execute calls, whose exit
\* statuses are dropped
Setup(i) ==
    /\ calls[i].pc = "setup"
    /\ \/ RemoteFail(i, "ssh error", calls[i].machine)
       \/ RemoteDone(i, "store", [calls[i].machine EXCEPT !.setup = TRUE])
    /\ UNCHANGED <<drivers, nodes, nextNode>>
    /\ UNCHANGED <<sessVars, auxVars>>

\* self.vms[profile] = Vm(...); back in get_container:
\* machine = self.vms[profile]; return Container(...)
Store(i) ==
    /\ calls[i].pc = "store"
    /\ vms' = PoolWith(vms, calls[i].profile, calls[i].machine)
    /\ calls' = [calls EXCEPT ![i].pc = "reply",
                    ![i].reply = Lease(calls[i].machine)]
    /\ queue' = Settled(queue, calls[i].profile,
                       During(calls[i].machine.node))
    /\ UNCHANGED <<drivers, nodes, nextNode>>
    /\ UNCHANGED <<sessVars, auxVars>>

\* the event loop writes the reply to the socket: the request is over
SendReply(i) ==
    /\ calls[i].pc = "reply"
    /\ calls' = [k \in 1..(Len(calls) - 1) |->
                    IF k < i THEN calls[k] ELSE calls[k + 1]]
    /\ UNCHANGED <<vms, drivers, queue, nodes, nextNode>>
    /\ UNCHANGED <<sessVars, auxVars>>

-----------------------------------------------------------------------------
(* Parts at rest *)

\* no teardown has begun, no Vm was ever constructed
TearIdle ==
    /\ lost = <<>>
    /\ destroyed = {}
    /\ cloudNodes = {}
    /\ cloudKeys = {}
    /\ issued = <<>>
    /\ invoked = <<>>
    /\ finalized = {}
    /\ tpc = "serving"
    /\ todo = <<>>
    /\ delRaised = {}

-----------------------------------------------------------------------------
(* Sshd.shutdown and shutdown_process *)

\* the process whose id is in the pid file, and the one Popen started
Processes == {"daemon", "spawned"}

\* psutil.Process(int(pidfile.readline())) and self.process
HandleOf(n) == IF n = "daemon" THEN "psutil" ELSE "popen"

\* signals a process can ignore
Ignorable == {"SIGINT", "SIGTERM"}

\* `except subprocess.TimeoutExpired` catches the timeout of Popen.wait;
\* psutil.Process.wait raises psutil.TimeoutExpired, which it does not name
TimeoutCaught(h) == h = "popen"

\* send_signal / terminate / kill reaches the system call: psutil raises
\* NoSuchProcess for a process that is gone, Popen (returncode still None)
\* signals the pid
SignalGoesOut(h, alive) == h = "popen" \/ alive

\* an Sshd that would not look at self.down
NeverDown == FALSE

\* `if not self.down` is false
IsDown == sshdDown

DownIdle ==
    /\ running = [n \in Processes |-> TRUE]
    /\ ignores = [n \in Processes |-> {}]
    /\ honoured = [n \in Processes |-> FALSE]
    /\ pidfile = TRUE
    /\ dpc = "idle"
    /\ ppc = "none"
    /\ target = "none"
    /\ signals = <<>>
    /\ reads = {}
    /\ results = <<>>

\* the record of a signal: to whom, which, whether the process was running,
\* and in which call of shutdown_process and of Sshd.shutdown
Signal(sig) ==
    [to |-> target, sig |-> sig, alive |-> running[target],
     sp |-> Len(results) + 1, by |-> shutdownCalls]

\* the record of a call of shutdown_process that has ended
Result(how) ==
    [to |-> target, how |-> how, running |-> running[target],
     sp |-> Len(results) + 1, by |-> shutdownCalls]

\* shutdown_process returns: Sshd.shutdown goes on with its next statement
Return ==
    /\ results' = Append(results, Result("returned"))
    /\ IF dpc = "pid"
       THEN /\ dpc' = "handle"
            /\ target' = "spawned"
            /\ ppc' = "int"
       ELSE /\ dpc' = "set"
            /\ target' = "none"
            /\ ppc' = "none"

\* a shutdown that would go on with its next statement after an exception
RaiseSwallowed ==
    /\ results' = Append(results, Result("raised"))
    /\ IF dpc = "pid"
       THEN /\ dpc' = "handle"
            /\ target' = "spawned"
            /\ ppc' = "int"
       ELSE /\ dpc' = "set"
            /\ target' = "none"
            /\ ppc' = "none"

\* an exception leaves shutdown_process and Sshd.shutdown
RaiseOut ==
    /\ results' = Append(results, Result("raised"))
    /\ dpc' = "idle"
    /\ target' = "none"
    /\ ppc' = "none"

\* send_signal(sig) / terminate() / kill() on the target
Send(sig, next) ==
    IF SignalGoesOut(HandleOf(target), running[target])
    THEN /\ signals' = Append(signals, Signal(sig))
         /\ honoured' = [honoured EXCEPT ![target] =
                            @ \/ (running[target] /\ sig \notin ignores[target])]
         /\ ppc' = next
         /\ UNCHANGED <<dpc, target, results>>
    ELSE /\ RaiseOut
         /\ UNCHANGED <<signals, honoured>>

\* process.wait(timeout=5)
TimedWait(next) ==
    /\ IF ~running[target]
       THEN Return
       ELSE IF TimeoutCaught(HandleOf(target))
       THEN ppc' = next /\ UNCHANGED <<dpc, target, results>>
       ELSE RaiseOut
    /\ UNCHANGED <<signals, honoured>>

\* Sshd.shutdown is called: by __exit__, by __del__, or by hand
ShutdownEnter ==
    /\ dpc = "idle"
    /\ shutdownCalls < MaxShutdownCalls
    /\ shutdownCalls' = shutdownCalls + 1
    /\ dpc' = IF IsDown THEN "idle" ELSE "open"
    /\ UNCHANGED <<sshdDown, running, ignores, honoured, pidfile, ppc, target,
                   signals, reads, results>>
    /\ UNCHANGED downFrame

\* with open(self.pidfile) as pidfile: psutil.Process(int(...))
OpenPidfile ==
    /\ dpc = "open"
    /\ reads' = reads \cup {shutdownCalls}
    /\ IF pidfile /\ running["daemon"]
       THEN /\ dpc' = "pid"
            /\ target' = "daemon"
            /\ ppc' = "int"
       ELSE /\ dpc' = "idle"
            /\ UNCHANGED <<target, ppc>>
    /\ UNCHANGED <<sshdDown, shutdownCalls, running, ignores, honoured,
                   pidfile, signals, results>>
    /\ UNCHANGED downFrame

\* process.send_signal(signal.SIGINT)
SendInt ==
    /\ ppc = "int"
    /\ Send("SIGINT", "wait1")
    /\ UNCHANGED <<sshdDown, shutdownCalls, running, ignores, pidfile, reads>>
    /\ UNCHANGED downFrame

\* the first process.wait(timeout=5)
Wait1 ==
    /\ ppc = "wait1"
    /\ TimedWait("term")
    /\ UNCHANGED <<sshdDown, shutdownCalls, running, ignores, pidfile, reads>>
    /\ UNCHANGED downFrame

\* process.terminate()
SendTerm ==
    /\ ppc = "term"
    /\ Send("SIGTERM", "wait2")
    /\ UNCHANGED <<sshdDown, shutdownCalls, running, ignores, pidfile, reads>>
    /\ UNCHANGED downFrame

\* the second process.wait(timeout=5)
Wait2 ==
    /\ ppc = "wait2"
    /\ TimedWait("kill")
    /\ UNCHANGED <<sshdDown, shutdownCalls, running, ignores, pidfile, reads>>
    /\ UNCHANGED downFrame

\* process.kill()
SendKill ==
    /\ ppc = "kill"
    /\ Send("SIGKILL", "wait3")
    /\ UNCHANGED <<sshdDown, shutdownCalls, running, ignores, pidfile, reads>>
    /\ UNCHANGED downFrame

\* process.wait(): returns once the process has exited
Wait3 ==
    /\ ppc = "wait3"
    /\ ~running[target]
    /\ Return
    /\ UNCHANGED <<sshdDown, shutdownCalls, running, ignores, honoured,
                   pidfile, signals, reads>>
    /\ UNCHANGED downFrame

\* self.down = True
SetDown ==
    /\ dpc = "set"
    /\ sshdDown' = TRUE
    /\ dpc' = "idle"
    /\ UNCHANGED <<shutdownCalls, running, ignores, honoured, pidfile, ppc,
                   target, signals, reads, results>>
    /\ UNCHANGED downFrame

\* a process that has got a signal it does not ignore exits; sshd may remove
\* its pid file on the way
ProcExit(n) ==
    /\ running[n]
    /\ honoured[n]
    /\ running' = [running EXCEPT ![n] = FALSE]
    /\ \E gone \in BOOLEAN :
          pidfile' = (pidfile /\ ~(gone /\ n = "daemon"))
    /\ UNCHANGED <<sshdDown, shutdownCalls, ignores, honoured, dpc, ppc,
                   target, signals, reads, results>>
    /\ UNCHANGED downFrame

-----------------------------------------------------------------------------
(* Sshd.__init__ and find_port *)

\* Sshd objects that exist on one machine, in one client or in several
Endpoints == {"a", "b"}

\* the ports a socket address can name; connect_ex raises OverflowError
\* beyond the last one
Ports == FirstPort..(FirstPort + MaxPorts)

\* a find_port that would take every port for free
NeverConnects(port, listening) == TRUE

\* `test_socket.connect_ex(('127.0.0.1', port)) != 0`
ConnectFails(port, listening) == port \notin listening

\* port = start - 1
BelowStart(start) == start - 1

PortIdle ==
    /\ listeners = {}
    /\ epc = [e \in Endpoints |-> "idle"]
    /\ eport = [e \in Endpoints |-> BelowStart(FirstPort)]
    /\ probes = [e \in Endpoints |-> <<>>]

\* Sshd.__init__ reaches self.find_port(8000): port = start - 1; ok = False
ScanStart(e) ==
    /\ epc[e] = "idle"
    /\ epc' = [epc EXCEPT ![e] = "scan"]
    /\ eport' = [eport EXCEPT ![e] = BelowStart(FirstPort)]
    /\ UNCHANGED <<listeners, probes>>
    /\ UNCHANGED portFrame

\* one turn of `while not ok`: port += 1 and a connect attempt; with ok the
\* loop ends and find_port returns port, which becomes self.port
Probe(e) ==
    /\ epc[e] = "scan"
    /\ LET port == eport[e] + 1 IN
       IF port \notin Ports
       THEN /\ epc' = [epc EXCEPT ![e] = "overflow"]
            /\ UNCHANGED <<eport, probes>>
       ELSE /\ eport' = [eport EXCEPT ![e] = port]
            /\ probes' = [probes EXCEPT ![e] =
                             Append(@, [port |-> port,
                                        had |-> port \in listeners])]
            /\ epc' = [epc EXCEPT ![e] =
                          IF ConnectFails(port, listeners) THEN "chosen"
                          ELSE "scan"]
    /\ UNCHANGED listeners
    /\ UNCHANGED portFrame

\* the configuration with `Port self.port` is written and sshd is started
Spawn(e) ==
    /\ epc[e] = "chosen"
    /\ epc' = [epc EXCEPT ![e] = "spawned"]
    /\ UNCHANGED <<listeners, eport, probes>>
    /\ UNCHANGED portFrame

\* the sshd process gets to bind its port: it listens, or it finds the port
\* taken and exits
Listen(e) ==
    /\ epc[e] = "spawned"
    /\ IF eport[e] \in listeners
       THEN /\ epc' = [epc EXCEPT ![e] = "failed"]
            /\ UNCHANGED listeners
       ELSE /\ epc' = [epc EXCEPT ![e] = "listening"]
            /\ listeners' = listeners \cup {eport[e]}
    /\ UNCHANGED <<eport, probes>>
    /\ UNCHANGED portFrame

\* Sshd.shutdown has ended the endpoint's server
EndpointDown(e) ==
    /\ epc[e] \in {"spawned", "listening", "failed"}
    /\ listeners' = IF epc[e] = "listening" THEN listeners \ {eport[e]}
                    ELSE listeners
    /\ epc' = [epc EXCEPT ![e] = "down"]
    /\ UNCHANGED <<eport, probes>>
    /\ UNCHANGED portFrame

-----------------------------------------------------------------------------
(* wrap_execute *)

\* stdout and stderr of the remote command
Streams == {"out", "err"}

\* the bytes n..m of a stream, named by their position in it
Bytes(n, m) == [k \in 1..(m - n + 1) |-> n + k - 1]

\* channel.recv_ready() / channel.recv_stderr_ready()
RecvReady(st) == buffer[st] # <<>>

\* `channel.exit_status_ready() and not out and not err`
LoopEnds == exitReady /\ got["out"] = <<>> /\ got["err"] = <<>>

ChanIdle ==
    /\ total = [st \in Streams |-> 0]
    /\ remote = [st \in Streams |-> 0]
    /\ buffer = [st \in Streams |-> <<>>]
    /\ pipes = [st \in Streams |-> <<>>]
    /\ exitReady = FALSE
    /\ got = [st \in Streams |-> <<>>]
    /\ wpc = "recv_out"

\* the remote command writes a byte: the transport's thread puts it into the
\* channel's buffer
RemoteWrite(st) ==
    /\ remote[st] > 0
    /\ buffer' = [buffer EXCEPT ![st] =
                     Append(@, total[st] - remote[st] + 1)]
    /\ remote' = [remote EXCEPT ![st] = @ - 1]
    /\ UNCHANGED <<total, pipes, exitReady, got, wpc>>
    /\ UNCHANGED chanFrame

\* the remote command exits after its last byte: the exit status arrives
RemoteExit ==
    /\ \A st \in Streams : remote[st] = 0
    /\ ~exitReady
    /\ exitReady' = TRUE
    /\ UNCHANGED <<total, remote, buffer, pipes, got, wpc>>
    /\ UNCHANGED chanFrame

\* one read of the loop: out = b''; if recv_ready(): out = recv(1)
Recv(st) ==
    IF RecvReady(st)
    THEN /\ got' = [got EXCEPT ![st] = <<Head(buffer[st])>>]
         /\ buffer' = [buffer EXCEPT ![st] = Tail(@)]
    ELSE /\ got' = [got EXCEPT ![st] = <<>>]
         /\ UNCHANGED buffer

RecvOut ==
    /\ wpc = "recv_out"
    /\ Recv("out")
    /\ wpc' = "recv_err"
    /\ UNCHANGED <<total, remote, pipes, exitReady>>
    /\ UNCHANGED chanFrame

RecvErr ==
    /\ wpc = "recv_err"
    /\ Recv("err")
    /\ wpc' = "write"
    /\ UNCHANGED <<total, remote, pipes, exitReady>>
    /\ UNCHANGED chanFrame

\* if out: pipe_out.write(out) ...; if err: pipe_err.write(err) ...
WritePipes ==
    /\ wpc = "write"
    /\ pipes' = [st \in Streams |-> pipes[st] \o got[st]]
    /\ wpc' = "check"
    /\ UNCHANGED <<total, remote, buffer, exitReady, got>>
    /\ UNCHANGED chanFrame

\* the test that ends the loop; then `return channel.recv_exit_status()`
CheckExit ==
    /\ wpc = "check"
    /\ wpc' = IF LoopEnds THEN "returned" ELSE "recv_out"
    /\ UNCHANGED <<total, remote, buffer, pipes, exitReady, got>>
    /\ UNCHANGED chanFrame

-----------------------------------------------------------------------------
(* Key *)

\* the two Key objects of one client run
Keys == {"key.mount", "key.local"}

\* self.name and self.name_pub
KeyParts == {"name", "name_pub"}

\* what os.remove does to a file: it deletes it, or raises FileNotFoundError,
\* or raises another OSError when the file system refuses the removal
RemoveOutcome(k, part) ==
    IF part \notin keyFiles[k] THEN "missing"
    ELSE IF part \in denied[k] THEN "oserror"
    ELSE "deleted"

\* `except FileNotFoundError: pass` catches only a missing file
Caught(outcome) == outcome # "oserror"

KeyIdle ==
    /\ keyFiles = [k \in Keys |-> {}]
    /\ denied = [k \in Keys |-> {}]
    /\ kpc = [k \in Keys |-> "new"]
    /\ attempted = [k \in Keys |-> {}]
    /\ keyError = [k \in Keys |-> "none"]

\* Key.__init__: ssh-keygen writes both files, or fails and check_call raises;
\* the object exists and will be finalized either way
KeyNew(k) ==
    /\ kpc[k] = "new"
    /\ \E ok \in BOOLEAN :
          keyFiles' = [keyFiles EXCEPT ![k] = IF ok THEN KeyParts ELSE {}]
    /\ kpc' = [kpc EXCEPT ![k] = "alive"]
    /\ UNCHANGED <<denied, attempted, keyError>>
    /\ UNCHANGED keyFrame

\* something else removes a file of the key (the temporary directory is
\* cleaned up)
Vanish(k, part) ==
    /\ kpc[k] # "new"
    /\ part \in keyFiles[k]
    /\ part \notin denied[k]
    /\ keyFiles' = [keyFiles EXCEPT ![k] = @ \ {part}]
    /\ UNCHANGED <<denied, kpc, attempted, keyError>>
    /\ UNCHANGED keyFrame

\* one os.remove of __del__ and what follows from its outcome
Remove(k, part, next) ==
    LET outcome == RemoveOutcome(k, part) IN
    /\ attempted' = [attempted EXCEPT ![k] = @ \cup {part}]
    /\ keyFiles' = [keyFiles EXCEPT ![k] =
                       IF outcome = "deleted" THEN @ \ {part} ELSE @]
    /\ IF Caught(outcome)
       THEN /\ kpc' = [kpc EXCEPT ![k] = next]
            /\ UNCHANGED keyError
       ELSE /\ kpc' = [kpc EXCEPT ![k] = "released"]
            /\ keyError' = [keyError EXCEPT ![k] = outcome]
    /\ UNCHANGED denied
    /\ UNCHANGED keyFrame

\* Key.__del__, first try block
RemovePrivate(k) ==
    /\ kpc[k] = "alive"
    /\ Remove(k, "name", "remove_pub")

\* Key.__del__, second try block
RemovePublic(k) ==
    /\ kpc[k] = "remove_pub"
    /\ Remove(k, "name_pub", "released")

-----------------------------------------------------------------------------
(* Daemon teardown: ServerHandler.__del__, Vm.__del__, Vm.destroy *)

\* the profiles whose provisioning reaches Vm(...): their configuration and
\* that of their account are complete and the provider exists
Provisionable ==
    {p \in DOMAIN ProfileConfig :
        /\ {"account", "image_id", "size_id"} \subseteq DOMAIN ProfileConfig[p]
        /\ ProfileConfig[p].account \in DOMAIN AccountConfig
        /\ LET a == AccountConfig[ProfileConfig[p].account] IN
              /\ {"provider", "username", "api_key", "region"} \subseteq DOMAIN a
              /\ Upper(a.provider) \in ProviderNames}

\* Vm objects whose __init__ raised, and the profile each was made for
LostNames == {"lost1", "lost2"}

LostProfile(o) == IF o = "lost1" THEN "default" ELSE "alt"

\* the order in which the Vm objects were constructed
Built == <<"lost1", "default", "lost2", "alt">>

\* the node id create_node gave to object o, the objects in `withNode` being
\* those whose __init__ got as far as create_node
NodeIdOf(o, withNode) ==
    Cardinality({k \in 1..Len(Built) :
                    /\ Built[k] \in withNode
                    /\ \E j \in k..Len(Built) : Built[j] = o})

\* a Vm whose __init__ has returned
WholeVm(p, n) ==
    [key |-> p, node |-> n, kpair |-> TRUE, ip_address |-> AddressOf(n),
     setup |-> TRUE]

\* a Vm whose __init__ raised: before import_key_pair_from_file (hasKey
\* false), in create_node (n = 0), or after create_node
PartialVm(p, hasKey, n) ==
    [key |-> p, node |-> n, kpair |-> hasKey, ip_address |-> 0,
     setup |-> FALSE]

\* the Vm objects of the daemon
Objects == DOMAIN vms \cup DOMAIN lost

Machine(o) == IF o \in DOMAIN vms THEN vms[o] ELSE lost[o]

NoDestroyCalls == [node |-> 0, kpair |-> 0]

\* the orders in which a dict with the keys of S can be iterated
Orders(S) ==
    {q \in [1..Cardinality(S) -> S] :
        \A i, j \in 1..Cardinality(S) : i # j => q[i] # q[j]}

\* a destroy() that would not look at self.destroyed
NeverDestroyed(o) == FALSE

\* `if not self.destroyed` is false
IsDestroyed(o) == o \in destroyed

\* how a destroy() that gets past the test can end: both driver calls are
\* made only for a field that is set, and either of them can raise
DestroyOutcomes(m) ==
    {"ok"} \cup (IF m.node # 0 THEN {"node_raises"} ELSE {})
           \cup (IF m.kpair THEN {"kpair_raises"} ELSE {})

\* Vm.destroy() on object o, as a whole
DestroyCall(o) ==
    LET m == Machine(o) IN
    /\ invoked' = [invoked EXCEPT ![o] = @ + 1]
    /\ IF IsDestroyed(o)
       THEN UNCHANGED <<destroyed, cloudNodes, cloudKeys, issued, delRaised>>
       ELSE \E r \in DestroyOutcomes(m) :
               /\ issued' =
                    [issued EXCEPT
                       ![o].node = @ + (IF m.node # 0 THEN 1 ELSE 0),
                       ![o].kpair =
                          @ + (IF m.kpair /\ r # "node_raises" THEN 1 ELSE 0)]
               /\ cloudNodes' = IF m.node # 0 /\ r # "node_raises"
                                THEN cloudNodes \ {m.node} ELSE cloudNodes
               /\ cloudKeys' = IF m.kpair /\ r = "ok"
                               THEN cloudKeys \ {o} ELSE cloudKeys
               /\ destroyed' = IF r = "ok" THEN destroyed \cup {o}
                               ELSE destroyed
               /\ delRaised' = IF r = "ok" THEN delRaised
                               ELSE delRaised \cup {o}

\* KeyboardInterrupt in run_forever: main() closes the loop and exits; the
\* handler is no longer needed
Interrupt ==
    /\ tpc = "serving"
    /\ tpc' = "interrupted"
    /\ UNCHANGED <<vms, lost, destroyed, cloudNodes, cloudKeys, issued,
                   invoked, finalized, todo, delRaised>>
    /\ UNCHANGED tearFrame

\* the interpreter finalizes the handler: ServerHandler.__del__ starts
HandlerDelStart ==
    /\ tpc = "interrupted"
    /\ tpc' = "handler_del"
    /\ \E q \in Orders(DOMAIN vms) : todo' = q
    /\ UNCHANGED <<vms, lost, destroyed, cloudNodes, cloudKeys, issued,
                   invoked, finalized, delRaised>>
    /\ UNCHANGED tearFrame

\* one turn of `for machine in self.vms.values(): machine.destroy()`; an
\* exception leaves the loop and __del__ (the interpreter prints it)
HandlerDel ==
    /\ tpc = "handler_del"
    /\ IF todo = <<>>
       THEN /\ tpc' = "collect"
            /\ UNCHANGED <<destroyed, cloudNodes, cloudKeys, issued, invoked,
                           todo, delRaised>>
       ELSE /\ DestroyCall(Head(todo))
            /\ IF Head(todo) \in destroyed'
               THEN todo' = Tail(todo) /\ tpc' = tpc
               ELSE todo' = todo /\ tpc' = "collect"
    /\ UNCHANGED <<vms, lost, finalized>>
    /\ UNCHANGED tearFrame

\* Vm.__del__ of an object nothing refers to any more: one whose __init__
\* raised, or one of the pool once the handler is gone. Whether and when the
\* interpreter calls it is not fixed; what it raises is printed and dropped
VmDel(o) ==
    /\ o \in Objects \ finalized
    /\ \/ o \in DOMAIN lost /\ tpc \notin {"exited", "exited_unfinalized"}
       \/ o \in DOMAIN vms /\ tpc = "collect"
    /\ DestroyCall(o)
    /\ finalized' = finalized \cup {o}
    /\ UNCHANGED <<vms, lost, tpc, todo>>
    /\ UNCHANGED tearFrame

\* exit(status): the process is gone, with the finalizers that have not run
Exit ==
    /\ tpc \in {"interrupted", "collect"}
    /\ tpc' = IF tpc = "collect" THEN "exited" ELSE "exited_unfinalized"
    /\ UNCHANGED <<vms, lost, destroyed, cloudNodes, cloudKeys, issued,
                   invoked, finalized, todo, delRaised>>
    /\ UNCHANGED tearFrame

-----------------------------------------------------------------------------
(* Specifications *)

\* the variables of the parts a specification leaves alone
AuxIdle == TearIdle /\ DownIdle /\ PortIdle /\ ChanIdle /\ KeyIdle

Init == SessInit /\ DaemonInit /\ AuxIdle

\* a daemon that has served requests: some profiles are in the pool, some
\* provisionings have failed
TeardownInit ==
    /\ SessInit
    /\ \E S \in SUBSET Provisionable, L \in SUBSET LostNames :
       \E K \in SUBSET L : \E N \in SUBSET K :
          LET withNode == S \cup N
              objs == S \cup L
              profileOf(o) == IF o \in S THEN o ELSE LostProfile(o)
          IN  /\ Cardinality(withNode) <= MaxNodes
              /\ vms = [q \in S |-> WholeVm(q, NodeIdOf(q, withNode))]
              /\ lost = [o \in L |->
                            PartialVm(LostProfile(o), o \in K,
                                      IF o \in N THEN NodeIdOf(o, withNode)
                                      ELSE 0)]
              /\ cloudNodes = {NodeIdOf(o, withNode) : o \in withNode}
              /\ cloudKeys = S \cup K
              /\ issued = [o \in objs |-> NoDestroyCalls]
              /\ invoked = [o \in objs |-> 0]
              /\ drivers = IF objs = {} THEN {} ELSE {"main"}
              /\ nodes = [q \in DOMAIN ProfileConfig |->
                            Cardinality({o \in withNode : profileOf(o) = q})]
              /\ nextNode = 1 + Cardinality(withNode)
    /\ DownIdle
    /\ PortIdle
    /\ ChanIdle
    /\ KeyIdle
    /\ queue = <<>>
    /\ calls = <<>>
    /\ destroyed = {}
    /\ finalized = {}
    /\ tpc = "serving"
    /\ todo = <<>>
    /\ delRaised = {}

\* an Sshd object after __init__: sshd may or may not have written its pid
\* file, and the process Popen started may have exited (sshd detaches)
ShutdownInit ==
    /\ pc = "sshd_exit"
    /\ container = {}
    /\ stack = <<>>
    /\ released = <<>>
    /\ acquired = <<>>
    /\ live = {"sshd"}
    /\ error = "none"
    /\ origError = "none"
    /\ raisedIn = {}
    /\ cmdStatus = NoStatus
    /\ procStatus = InitialStatus
    /\ sshdDown = FALSE
    /\ shutdownCalls = 0
    /\ profile = DefaultProfile
    /\ asked = {LeaseArgument(profile)}
    /\ mountStatus = NoStatus
    /\ keysMade = {"key_mount", "key_local"}
    /\ keysReleased = {}
    /\ interrupts = 0
    /\ DaemonInit
    /\ TearIdle
    /\ PortIdle
    /\ ChanIdle
    /\ KeyIdle
    /\ running \in [Processes -> BOOLEAN]
    /\ ignores \in [Processes -> SUBSET Ignorable]
    /\ honoured = [n \in Processes |-> FALSE]
    /\ pidfile \in BOOLEAN
    /\ dpc = "idle"
    /\ ppc = "none"
    /\ target = "none"
    /\ signals = <<>>
    /\ reads = {}
    /\ results = <<>>

\* some ports are taken by other programs before any endpoint starts
PortInit ==
    /\ SessInit
    /\ DaemonInit
    /\ TearIdle
    /\ DownIdle
    /\ ChanIdle
    /\ KeyIdle
    /\ listeners \in SUBSET Ports
    /\ epc = [e \in Endpoints |-> "idle"]
    /\ eport = [e \in Endpoints |-> BelowStart(FirstPort)]
    /\ probes = [e \in Endpoints |-> <<>>]

\* the command has been started with exec_command; it will write some bytes
\* to each stream and exit
ChanInit ==
    /\ SessInit
    /\ DaemonInit
    /\ TearIdle
    /\ DownIdle
    /\ PortIdle
    /\ KeyIdle
    /\ total \in [Streams -> 0..MaxBytes]
    /\ remote = total
    /\ buffer = [st \in Streams |-> <<>>]
    /\ pipes = [st \in Streams |-> <<>>]
    /\ exitReady = FALSE
    /\ got = [st \in Streams |-> <<>>]
    /\ wpc = "recv_out"

\* the keys are about to be generated; the file system may refuse to remove
\* some of their files
KeyInit ==
    /\ SessInit
    /\ DaemonInit
    /\ TearIdle
    /\ DownIdle
    /\ PortIdle
    /\ ChanIdle
    /\ keyFiles = [k \in Keys |-> {}]
    /\ denied \in [Keys -> SUBSET KeyParts]
    /\ kpc = [k \in Keys |-> "new"]
    /\ attempted = [k \in Keys |-> {}]
    /\ keyError = [k \in Keys |-> "none"]

Next ==
    \/ GetLease
    \/ KeyMount
    \/ KeyLocal
    \/ SshdInit
    \/ StartForward
    \/ Connect
    \/ OpenSftp
    \/ PutKey
    \/ Chmod
    \/ Mount
    \/ RunCommand
    \/ Unwind
    \/ LeaveExecute
    \/ SshdExit
    \/ KeysDel
    \/ MainExit

\* one client run
Spec == Init /\ [][Next]_vars

\* a client started with some --profile
ClientInit ==
    /\ pc = "lease"
    /\ container = {}
    /\ stack = <<>>
    /\ released = <<>>
    /\ acquired = <<>>
    /\ live = {}
    /\ error = "none"
    /\ origError = "none"
    /\ raisedIn = {}
    /\ cmdStatus = NoStatus
    /\ procStatus = InitialStatus
    /\ sshdDown = FALSE
    /\ shutdownCalls = 0
    /\ profile \in ClientProfiles
    /\ asked = {}
    /\ mountStatus = NoStatus
    /\ keysMade = {}
    /\ keysReleased = {}
    /\ interrupts = 0
    /\ DaemonInit
    /\ AuxIdle

ClientNext ==
    \/ Next
    \/ InterruptStep
    \/ InterruptCallback
    \/ InterruptExitStack
    \/ InterruptShutdown

\* one client run with the operator at the keyboard
ClientSpec == ClientInit /\ [][ClientNext]_vars

DaemonNext ==
    \/ \E p \in RequestProfiles : Arrive(p)
    \/ Dispatch
    \/ \E i \in Calls : GetContainer(i)
    \/ \E i \in Calls : CreateVm(i)
    \/ \E i \in Calls : CreateDriver(i)
    \/ \E i \in Calls : KeyGenSsh(i)
    \/ \E i \in Calls : Catalog(i)
    \/ \E i \in Calls : ImportKey(i)
    \/ \E i \in Calls : CreateNode(i)
    \/ \E i \in Calls : WaitRunning(i)
    \/ \E i \in Calls : Setup(i)
    \/ \E i \in Calls : Store(i)
    \/ \E i \in Calls : SendReply(i)

\* one daemon run
DaemonSpec == Init /\ [][DaemonNext]_vars

TeardownNext ==
    \/ Interrupt
    \/ HandlerDelStart
    \/ HandlerDel
    \/ \E o \in Objects : VmDel(o)
    \/ Exit

\* the end of a daemon run
TeardownSpec == TeardownInit /\ [][TeardownNext]_vars

ShutdownNext ==
    \/ ShutdownEnter
    \/ OpenPidfile
    \/ SendInt
    \/ Wait1
    \/ SendTerm
    \/ Wait2
    \/ SendKill
    \/ Wait3
    \/ SetDown
    \/ \E n \in Processes : ProcExit(n)

\* the calls of Sshd.shutdown on one Sshd object
ShutdownSpec == ShutdownInit /\ [][ShutdownNext]_vars

PortNext ==
    \/ \E e \in Endpoints : ScanStart(e)
    \/ \E e \in Endpoints : Probe(e)
    \/ \E e \in Endpoints : Spawn(e)
    \/ \E e \in Endpoints : Listen(e)
    \/ \E e \in Endpoints : EndpointDown(e)

\* the local sshd endpoints of one machine
PortSpec == PortInit /\ [][PortNext]_vars

ChanNext ==
    \/ \E st \in Streams : RemoteWrite(st)
    \/ RemoteExit
    \/ RecvOut
    \/ RecvErr
    \/ WritePipes
    \/ CheckExit

\* one call of wrap_execute
ChanSpec == ChanInit /\ [][ChanNext]_vars

KeyNext ==
    \/ \E k \in Keys : KeyNew(k)
    \/ \E k \in Keys, part \in KeyParts : Vanish(k, part)
    \/ \E k \in Keys : RemovePrivate(k)
    \/ \E k \in Keys : RemovePublic(k)

\* the keys of one client run, from generation to release
KeySpec == KeyInit /\ [][KeyNext]_vars

-----------------------------------------------------------------------------
(* Client session: properties *)

Reverse(s) == [k \in 1..Len(s) |-> s[Len(s) + 1 - k]]

\* the release action that undoes an acquisition step
InverseOf(step) ==
    CASE step = "forward" -> "stop_forward"
      [] step = "connect" -> "close_ssh"
      [] step = "sftp"    -> "close_sftp"
      [] step = "upload"  -> "remove_key"
      [] step = "mount"   -> "unmount"

\* the release actions owed for the steps that succeeded, last acquired first
Owed == Reverse([k \in 1..Len(acquired) |-> InverseOf(acquired[k])])

\* execute() has been left
Unwound == pc \in {"sshd_exit", "return", "main", "done"}

\* errors raised by the steps of execute()
StepErrors == {"E_attribute", "E_forward", "E_connect", "E_sftp", "E_put",
               "E_chmod", "E_mount", "E_command"}

\* C1: in every run of execute(), whether it completes or fails at a step,
\* the release actions called on teardown are the inverses of the
\* acquisition steps that returned before that point, one per step, called
\* in reverse order of acquisition: while unwinding the calls made so far
\* are a prefix of that reversed list, and once execute() is left they are
\* the whole list.
C1_ReleaseInReverseOrder ==
    /\ Len(released) <= Len(acquired)
    /\ released = SubSeq(Owed, 1, Len(released))
    /\ Unwound => released = Owed

\* a run that failed at the key upload: three steps had succeeded, their
\* three inverses were called, last acquired first
C1_Witness ==
    /\ pc = "done"
    /\ origError = "E_put"
    /\ acquired = <<"forward", "connect", "sftp">>
    /\ released = <<"close_sftp", "close_ssh", "stop_forward">>

\* C2: at the end of every client session, on every exit path, no resource
\* the session acquired remains live: the mount is unmounted, the uploaded
\* key removed, SFTP and SSH closed, the reverse-forward process exited and
\* the local sshd endpoint down.
C2_NothingLiveAtExit == pc = "done" => live = {}

\* C3: if a release action raises during the unwind, every release action
\* below it on the cleanup stack is still called after it, and the shutdown
\* of the local sshd endpoint is still called.
C3_UnwindGoesOnAfterRaise ==
    (pc \in {"main", "done"} /\ acquired # <<>>) =>
        \A j \in 1..Len(released) :
            released[j] \in raisedIn =>
                /\ \A k \in 1..Len(acquired) :
                      (\E m \in (k + 1)..Len(acquired) :
                            InverseOf(acquired[m]) = released[j])
                      => \E n \in (j + 1)..Len(released) :
                            released[n] = InverseOf(acquired[k])
                /\ shutdownCalls = 1

\* the unmount raised, and the four callbacks below it and the endpoint
\* shutdown were called all the same
C3_Witness ==
    /\ pc = "done"
    /\ "unmount" \in raisedIn
    /\ released = <<"unmount", "remove_key", "close_sftp", "close_ssh",
                    "stop_forward">>
    /\ shutdownCalls = 1

\* C4: when a step of the session fails with an error and a release action
\* of the unwind (a cleanup callback or the endpoint shutdown) fails too,
\* the error reported to the caller is the original one.
C4_OriginalErrorReported ==
    (pc = "done" /\ origError \in StepErrors /\ raisedIn # {})
        => error = origError

\* C5: the exit status of the client process is that of the remote command
\* whenever the command was run to completion, and 1 whenever a step failed
\* before that.
C5_ExitStatusIsRemoteStatus ==
    pc = "done" =>
        /\ cmdStatus # NoStatus => procStatus = cmdStatus[1]
        /\ cmdStatus = NoStatus => procStatus = 1

\* the elements of a sequence
Range(s) == {s[k] : k \in 1..Len(s)}

\* the errors that end coro_cli before the Sshd object exists
EarlyErrors == {"E_lease", "E_keygen", "E_sshd"}

\* the release actions of a session that ran all its steps, in the order of
\* the unwind
FullUnwind == <<"unmount", "remove_key", "close_sftp", "close_ssh",
                "stop_forward">>

\* C21: an interrupt at any point of a client session sets off the same
\* unwind as a failure, and a second interrupt during the unwind does not
\* abort it: when the process of an interrupted session exits, every release
\* action that was pushed has been called, last pushed first, none is left
\* on the stack, and the endpoint shutdown has been called.
C21_InterruptUnwinds ==
    (pc = "done" /\ interrupts > 0) =>
        /\ stack = <<>>
        /\ released = Owed
        /\ acquired # <<>> => shutdownCalls >= 1

\* C22: the profile name the client sends in its lease call is the profile
\* chosen for the session with --profile.
C22_LeaseForTargetProfile == asked \subseteq {profile}

\* C23: on a session that runs to completion the teardown goes: unmount,
\* remove the uploaded key, close SFTP, close SSH, stop the reverse forward,
\* shut down the sshd endpoint, release both keys.  In every session the
\* endpoint shutdown is called only when the cleanup stack is empty and the
\* reverse forward, if it was started, has been stopped; and the keys of a
\* session that had an endpoint are released only after its shutdown was
\* called.
C23_TeardownOrder ==
    /\ shutdownCalls > 0 =>
          /\ stack = <<>>
          /\ "forward" \notin live
          /\ "forward" \in Range(acquired) => "stop_forward" \in Range(released)
    /\ (keysReleased # {} /\ origError \notin EarlyErrors) => shutdownCalls > 0
    /\ (error = "none" /\ shutdownCalls > 0) => released = FullUnwind
    /\ (error = "none" /\ keysReleased # {}) =>
          /\ sshdDown
          /\ keysReleased = {"key_mount", "key_local"}
    /\ (error = "none" /\ pc \in {"main", "done"}) => keysReleased # {}

\* a session without any error, at its end: five release actions, the
\* endpoint down, both keys released
C23_Witness ==
    /\ pc = "done"
    /\ error = "none"
    /\ released = FullUnwind
    /\ sshdDown
    /\ shutdownCalls = 1
    /\ keysReleased = {"key_mount", "key_local"}

\* C26: execute() does not look at the exit status of the mount command:
\* whatever the status, no error is raised for it, the unmount action is
\* pushed, the user command is run next, and the status execute() returns is
\* that of the user command.
C26_MountStatusIgnored ==
    mountStatus # NoStatus =>
        /\ origError # "E_mount"
        /\ acquired[Len(acquired)] = "mount"
        /\ pc = "run" => NextCallback(stack) = "unmount"
        /\ pc # "run" => /\ cmdStatus # NoStatus \/ origError = "E_command"
                         /\ released # <<>> => released[1] = "unmount"
        /\ (pc = "done" /\ error = "none") => procStatus = cmdStatus[1]

\* the mount command exited with 1, the user command with 2, and the client
\* exited with 2 after the unmount action was called first
C26_Witness ==
    /\ pc = "done"
    /\ mountStatus = <<1>>
    /\ cmdStatus = <<2>>
    /\ procStatus = 2
    /\ released[1] = "unmount"

\* C27: a client run that was interrupted before the remote command's exit
\* status was obtained exits with status 0.
C27_InterruptedExitsZero ==
    (pc = "done" /\ interrupts > 0 /\ cmdStatus = NoStatus)
        => procStatus = InitialStatus

-----------------------------------------------------------------------------
(* Daemon: properties *)

\* the lease a client is to get for profile p while p is in the pool
PoolLease(p) ==
    [kind |-> "lease", ip_address |-> vms[p].ip_address, user |-> "root",
     key |-> <<"key.ssh", p>>]

\* every answer for a pooled profile is the pool's lease, and the only call
\* for it that made driver calls or generated a key is the one that built
\* the pooled Vm
C6_LeaseFromPool ==
    \A i \in Calls :
        LET p == calls[i].profile IN
        p \in DOMAIN vms =>
            /\ calls[i].pc = "reply" => calls[i].reply = PoolLease(p)
            /\ calls[i].ncalls > 0 => calls[i].machine = vms[p]

\* once a profile is in the pool its Vm stays as it is and no node is
\* created for it
C6_PoolEntryIsFinal ==
    \A p \in DOMAIN vms :
        /\ p \in DOMAIN vms'
        /\ vms'[p] = vms[p]
        /\ nodes'[p] = nodes[p]

\* C6 (as amended): for every configured profile P, after a first successful
\* get_container(P), every later get_container(P) returns a lease with the
\* same address, user "root" and key reference and performs no driver call
\* and no key generation, and no node is created for P after that first
\* success.
C6_CachedLease == []C6_LeaseFromPool /\ [][C6_PoolEntryIsFinal]_vars

\* a later request for a pooled profile, answered without a single call
C6_Witness ==
    \E i \in Calls :
        /\ calls[i].pc = "reply"
        /\ calls[i].profile \in DOMAIN vms
        /\ calls[i].ncalls = 0
        /\ calls[i].reply = PoolLease(calls[i].profile)

\* C6 as stated: the above, and at most one node is ever created per profile
\* during a daemon's lifetime.
C6_OneNodePerProfileEver ==
    /\ C6_LeaseFromPool
    /\ \A p \in DOMAIN nodes : nodes[p] <= 1

\* while a call for an unconfigured profile is running, neither the pool nor
\* the driver cache changes and no node is created
C7_Frame ==
    (\E i \in Calls : calls[i].profile \notin DOMAIN ProfileConfig)
        => /\ vms' = vms
           /\ drivers' = drivers
           /\ nodes' = nodes

\* the answer to a call for an unconfigured profile is the unknown-profile
\* error, and the call has generated no key and made no driver call
C7_RejectedWithoutCalls ==
    \A i \in Calls :
        (calls[i].pc = "reply" /\ calls[i].profile \notin DOMAIN ProfileConfig)
        => /\ calls[i].reply = ErrorReply("Unknown profile")
           /\ calls[i].ncalls = 0

\* C7: get_container(P) for a profile P that is not configured fails with
\* the unknown-profile error, generates no key and makes no driver call, and
\* leaves the profile-to-VM map and the account-to-driver cache as they were.
C7_UnknownProfileRejected == []C7_RejectedWithoutCalls /\ [][C7_Frame]_vars

\* a request for "ghost" rejected by a daemon whose pool holds a Vm
C7_Witness ==
    /\ vms # <<>>
    /\ \E i \in Calls :
          /\ calls[i].pc = "reply"
          /\ calls[i].profile = "ghost"
          /\ calls[i].reply = ErrorReply("Unknown profile")

C9_ReadyLookupNotBlocked ==
    (/\ queue # <<>>
     /\ Head(queue).profile \in DOMAIN vms
     /\ \E i \in Calls : /\ calls[i].pc \in RemoteSteps
                         /\ calls[i].profile # Head(queue).profile)
    => ENABLED Dispatch

\* every Vm in the pool is a whole one
C10_PoolHoldsWholeVms ==
    \A p \in DOMAIN vms :
        /\ vms[p].node > 0
        /\ vms[p].kpair
        /\ vms[p].ip_address = AddressOf(vms[p].node)
        /\ vms[p].setup

\* a call that ends in an error leaves its profile out of the pool, and a
\* call that finds its profile out of the pool goes on into create_vm
C10_FailureLeavesAbsent ==
    \A i \in Calls :
        i <= Len(calls') =>
            /\ (/\ calls[i].pc # "reply"
                /\ calls'[i].pc = "reply"
                /\ calls'[i].reply.kind = "error")
               => /\ calls[i].profile \notin DOMAIN vms'
                  /\ vms' = vms
            /\ (/\ calls[i].pc = "get_container"
                /\ calls'[i].pc # "get_container"
                /\ calls[i].profile \notin DOMAIN vms)
               => calls'[i].pc = "create_vm"

\* C10: when the provisioning of P fails at any step, P is not left in the
\* pool in a partially provisioned state: P is absent afterwards, and a
\* later get_container(P) starts a fresh provisioning.
C10_FailedProvisioningReverts ==
    []C10_PoolHoldsWholeVms /\ [][C10_FailureLeavesAbsent]_vars

\* a provisioning of a profile is running after an earlier one for it had
\* created a node and failed
C10_Witness ==
    \E i \in Calls :
        /\ calls[i].pc \in RemoteSteps
        /\ calls[i].machine.node = 0
        /\ calls[i].profile \in DOMAIN nodes
        /\ nodes[calls[i].profile] = 1
        /\ calls[i].profile \notin DOMAIN vms

-----------------------------------------------------------------------------
(* Daemon teardown: properties *)

\* C11: daemon teardown attempts to destroy every Vm of the pool: when the
\* handler's __del__ has run and the process has exited, and the destroy()
\* of one Vm of the pool raised, destroy() has still been called on every
\* other Vm of the pool.
C11_DestroyAllDespiteError ==
    (tpc = "exited" /\ \E p \in DOMAIN vms : p \in delRaised)
        => \A q \in DOMAIN vms : invoked[q] >= 1

\* C12: once daemon teardown has run, no node the daemon created and no key
\* pair it imported exists at the provider any more, those of a Vm whose
\* provisioning failed after create_node included.
C12_NothingLeftAtProvider ==
    tpc = "exited" => cloudNodes = {} /\ cloudKeys = {}

\* a Vm whose `destroyed` is set has neither its node nor its key pair left
C13_DestroyedIsGone ==
    \A o \in destroyed :
        /\ Machine(o).node \notin cloudNodes
        /\ o \notin cloudKeys

\* a Vm that is destroyed stays destroyed, and no destroy_node and no
\* delete_key_pair call is made for it any more
C13_NoCallOnceDestroyed ==
    \A o \in destroyed :
        /\ o \in destroyed'
        /\ issued'[o] = issued[o]

\* C13: Vm.destroy is idempotent: a Vm moves to destroyed at most once, and
\* a destroy() called on a Vm that is destroyed makes no destroy_node and no
\* delete_key_pair call.
C13_DestroyIdempotent == []C13_DestroyedIsGone /\ [][C13_NoCallOnceDestroyed]_vars

\* destroy() was called again on a destroyed Vm of the pool (by Vm.__del__
\* after the handler's loop), and each driver call was made once
C13_Witness ==
    \E o \in DOMAIN vms :
        /\ o \in destroyed
        /\ invoked[o] = 2
        /\ issued[o] = [node |-> 1, kpair |-> 1]

-----------------------------------------------------------------------------
(* Sshd.shutdown and shutdown_process: properties *)

\* the signals sent in the call of shutdown_process numbered sp
SentIn(sp) == {j \in 1..Len(signals) : signals[j].sp = sp}

\* the tiers of the escalation
Tier(sig) ==
    CASE sig = "SIGINT"  -> 1
      [] sig = "SIGTERM" -> 2
      [] sig = "SIGKILL" -> 3

\* C14: shutdown_process never returns normally while the process is still
\* running; and a call on a running process that ignores both the interrupt
\* and the terminate signal sends the kill signal and returns (after the
\* process has exited).
C14_ReturnsOnlyAfterExit ==
    \A k \in 1..Len(results) :
        LET r == results[k] IN
        /\ r.how = "returned" => ~r.running
        /\ (/\ ignores[r.to] = Ignorable
            /\ \E j \in SentIn(r.sp) : signals[j].sig = "SIGINT"
                                       /\ signals[j].alive)
           => /\ r.how = "returned"
              /\ \E j \in SentIn(r.sp) : signals[j].sig = "SIGKILL"

\* C15: within a call shutdown_process sends its signals in the order
\* interrupt, terminate, kill, each at most once, and sends a signal of any
\* tier, the first interrupt included, only to a process that is still
\* running at that point.
C15_SignalsInOrderToRunning ==
    \A j \in 1..Len(signals) :
        /\ signals[j].alive
        /\ \A i \in 1..(j - 1) :
              signals[i].sp = signals[j].sp
                  => Tier(signals[i].sig) < Tier(signals[j].sig)

\* every signal belongs to a call of Sshd.shutdown that opened the pid file,
\* and the spawned process is signalled only in a call whose supervision of
\* the pid-file process has returned before
C19_PidFileProcessFirst ==
    \A j \in 1..Len(signals) :
        /\ signals[j].by \in reads
        /\ signals[j].to = "spawned" =>
              /\ \E k \in 1..Len(results) :
                    /\ results[k].by = signals[j].by
                    /\ results[k].to = "daemon"
                    /\ results[k].how = "returned"
                    /\ results[k].sp < signals[j].sp
              /\ \A i \in (j + 1)..Len(signals) :
                    signals[i].by = signals[j].by => signals[i].to = "spawned"

\* once self.down is set it stays set, no signal is sent and no pid file is
\* opened
C19_NoopOnceDown ==
    sshdDown => /\ sshdDown'
                /\ signals' = signals
                /\ reads' = reads

\* C19 (as amended): Sshd.shutdown first supervises down the process whose
\* id is in the pid file and then the process it spawned, and any call made
\* after a call of shutdown that returned normally sends no signal and opens
\* no pid file.
C19_ShutdownOrderedAndIdempotent ==
    []C19_PidFileProcessFirst /\ [][C19_NoopOnceDown]_vars

\* a second call after a first one that signalled both processes and
\* returned: it did nothing
C19_Witness ==
    /\ sshdDown
    /\ shutdownCalls = 2
    /\ dpc = "idle"
    /\ reads = {1}
    /\ \E i, j \in 1..Len(signals) :
          /\ i < j
          /\ signals[i].to = "daemon"
          /\ signals[j].to = "spawned"

\* C19 as stated: the order above, and any call after the first call of
\* shutdown sends no signal and reads no pid file.
C19_AnyLaterCallIsNoop ==
    /\ C19_PidFileProcessFirst
    /\ reads \subseteq {1}
    /\ \A j \in 1..Len(signals) : signals[j].by = 1

\* the calls of Sshd.shutdown that have ended
EndedCalls == IF dpc = "idle" THEN 1..shutdownCalls
              ELSE 1..(shutdownCalls - 1)

\* the call of Sshd.shutdown numbered c supervised process n and that
\* supervision returned
Supervised(c, n) ==
    \E k \in 1..Len(results) :
        /\ results[k].by = c
        /\ results[k].to = n
        /\ results[k].how = "returned"

\* the call numbered c failed at the pid file or in the supervision of the
\* pid-file process
FailedAtPid(c) ==
    /\ c \in EndedCalls
    /\ c \in reads
    /\ ~Supervised(c, "daemon")

\* C25: Sshd.shutdown marks the endpoint down only after both supervisions
\* have returned.  A call in which reading the pid file fails or the
\* supervision of the pid-file process raises sends no signal to the spawned
\* process and leaves the endpoint not down; as long as the endpoint is not
\* down, every call starts again at the pid-file read.
C25_DownOnlyAfterBoth ==
    /\ sshdDown => \E c \in 1..shutdownCalls :
                      Supervised(c, "daemon") /\ Supervised(c, "spawned")
    /\ \A c \in 1..shutdownCalls :
          FailedAtPid(c) =>
              /\ \A j \in 1..Len(signals) :
                    signals[j].by = c => signals[j].to # "spawned"
              /\ ~Supervised(c, "spawned")
    /\ (dpc = "idle" /\ \A c \in 1..shutdownCalls : FailedAtPid(c))
          => ~sshdDown
    /\ ~sshdDown => EndedCalls \subseteq reads

\* a first call failed in the supervision of the pid-file process, and the
\* second call read the pid file again
C25_Witness ==
    /\ shutdownCalls = 2
    /\ FailedAtPid(1)
    /\ \E k \in 1..Len(results) : results[k].by = 1 /\ results[k].how = "raised"
    /\ reads = {1, 2}
    /\ ~sshdDown

-----------------------------------------------------------------------------
(* find_port and the endpoints: properties *)

\* find_port has returned for endpoint e
Scanned(e) == epc[e] \in {"chosen", "spawned", "listening", "failed", "down"}

\* the smallest port from FirstPort on that has no listener in L
MinFree(L) ==
    CHOOSE q \in Ports : q \notin L /\ \A r \in FirstPort..(q - 1) : r \in L

\* C16: find_port(start) returns the smallest port p >= start on which the
\* connect attempt failed: it probed start, start + 1, ..., p in this order,
\* every port before p had a listener when it was probed and p had none; and
\* with the same listeners throughout the result is the smallest port from
\* start on that has none.
C16_FirstFreePort ==
    \A e \in Endpoints :
        Scanned(e) =>
            LET pr == probes[e] IN
            /\ Len(pr) >= 1
            /\ \A k \in 1..Len(pr) : pr[k].port = FirstPort + k - 1
            /\ \A k \in 1..(Len(pr) - 1) : pr[k].had
            /\ ~pr[Len(pr)].had
            /\ eport[e] = pr[Len(pr)].port
            /\ (epc[e] = "chosen" /\ \A f \in Endpoints \ {e} : epc[f] = "idle")
                  => eport[e] = MinFree(listeners)

\* a scan that passed two taken ports and returned the third
C16_Witness ==
    \E e \in Endpoints :
        /\ epc[e] = "chosen"
        /\ eport[e] = FirstPort + 2
        /\ Len(probes[e]) = 3

\* the endpoint's Sshd object is constructed and not shut down
LiveEndpoint(e) == epc[e] \in {"spawned", "listening"}

\* C17: no two local sshd endpoints that are live at the same time are
\* configured with the same port, whatever the interleaving of their starts.
C17_DistinctPorts ==
    \A e, f \in Endpoints :
        (e # f /\ LiveEndpoint(e) /\ LiveEndpoint(f)) => eport[e] # eport[f]

\* C24: find_port ends for every set of listening ports, and when every port
\* of its range has a listener it ends with a no-port-available error of its
\* own: the scan never goes on to a port number that the socket call itself
\* rejects.
C24_ExhaustedScanFailsCleanly ==
    \A e \in Endpoints : epc[e] # "overflow"

-----------------------------------------------------------------------------
(* wrap_execute: properties *)

\* C18: what wrap_execute writes to each pipe is, in order, a prefix of what
\* the remote command wrote to that stream, and when wrap_execute returns the
\* exit status has been reported, nothing is left unread and every byte the
\* command wrote to either stream has been written to its pipe.
C18_NoOutputLost ==
    /\ \A st \in Streams : pipes[st] = Bytes(1, Len(pipes[st]))
    /\ wpc = "returned" =>
          /\ exitReady
          /\ \A st \in Streams : /\ buffer[st] = <<>>
                                 /\ pipes[st] = Bytes(1, total[st])

-----------------------------------------------------------------------------
(* Key: properties *)

\* C20: once a key is released, no exception has left its release, the
\* deletion of both of its files was attempted whatever the deletion of the
\* private file did, and after a release without a deletion error neither
\* file exists.
C20_ReleaseAttemptsBoth ==
    \A k \in Keys :
        kpc[k] = "released" =>
            /\ attempted[k] = KeyParts
            /\ keyError[k] = "none" => keyFiles[k] = {}

====
